---- MODULE Spec2Model ----
(***************************************************************************)
(* The regular-expression lexer of src/src/regex/lexer.rs as a state       *)
(* machine.  One call of lexer(s) is a process that owns the locals of the *)
(* function body (chars, tokens, i, escape_found), a control position pc   *)
(* (the outer while-let loop, the brace while-let loop, returned) and the  *)
(* returned value.  Every variable is a function over the calls in         *)
(* progress, so that one, or two concurrent, calls can be explored.        *)
(* A character is a one-character string; a &str is a sequence of them.    *)
(***************************************************************************)
EXTENDS Integers, Sequences, FiniteSets, TLC

VARIABLES s, chars, tokens, i, escape_found, pc, result

vars == <<s, chars, tokens, i, escape_found, pc, result>>

(* ------------------------------ bounds --------------------------------- *)

\* longest input over CoreAlphabet explored by Spec
MaxLen == 4
\* longest input over the whole Alphabet explored by Spec
MaxWide == 2
\* longest input explored by SpecTwin (two calls, the same input)
MaxTwin == 3
\* largest sum of the two input lengths explored by SpecPair
MaxPair == 3
\* longest input explored by SpecTerm
MaxTerm == 3

(* ---------------------------- characters ------------------------------- *)

TAB == "\t"

BACKSLASH == "\\"

Digits == {"0", "1", "2", "3", "4", "5", "6", "7", "8", "9"}

\* char::is_digit(16) in the place of char::is_digit(10)
IsDigitHex(c) == c \in Digits \cup {"a", "b", "c", "d", "e", "f"}

\* char::is_digit(10)
IsDigit(c) == c \in Digits

\* the characters with a match arm of their own, a digit, and two letters
Alphabet ==
    {"^", "$", ".", "*", "?", "+", "|", "(", ")", "-", "[", "]", "{", "}",
     ",", BACKSLASH, "3", "a", "t"}

\* the characters whose handling depends on the scanner's state
CoreAlphabet == {"^", BACKSLASH, "{", "}", ",", "3", "a", "t"}

PairAlphabet == {"^", BACKSLASH, "{", "}", ",", "3"}

Strings(A, n) == UNION {[1..k -> A] : k \in 0..n}

(* ------------------------------ tokens --------------------------------- *)

ElementToken(c) == <<"ElementToken", c>>

WildCardToken == <<"WildCardToken">>

StartToken == <<"StartToken">>

EndToken == <<"EndToken">>

CommaToken == <<"CommaToken">>

Parenthesis(p) == <<"Parenthesis", p>>

CurlyBrace(b) == <<"CurlyBrace", b>>

Bracket(b) == <<"Bracket", b>>

Quantifier(q) == <<"Quantifier", q>>

ZeroOrMore(z) == <<"ZeroOrMore", z>>

OneOrMore == <<"OneOrMore">>

LeftCurly == CurlyBrace("LeftCurlyBrace")

RightCurly == CurlyBrace("RightCurlyBrace")

(* ------------------------------ results -------------------------------- *)

\* struct LexerError(String)
LexerError(msg) == <<"LexerError", msg>>

\* the String a LexerError holds
Message(e) == e[2]

\* impl Display for LexerError
fmt(e) == "There occurred an error in lexer: " \o Message(e)

Ok(v) == <<"Ok", v>>

Err(e) == <<"Err", e>>

\* the call has not returned
Pending == <<"Pending">>

\* the message the brace sub-scan builds its error with
BraceErrorMessage == ""

(* --------------------------- the match arms ---------------------------- *)

NotToken == <<"NotToken">>

OrToken == <<"OrToken">>

DashToken == <<"DashToken">>

\* the escape branch without the arm of 't'
EscapedTokenNoTab(c) == ElementToken(c)

\* the token of an escaped character
EscapedToken(c) == IF c = "t" THEN ElementToken(TAB) ELSE ElementToken(c)

\* the arm of '^' pushing StartToken wherever it is read
CaretTokenAlways(n) == StartToken

\* the arm of '^' testing i <= 1 in the place of i == 0
CaretTokenLoose(n) == IF n <= 1 THEN StartToken ELSE NotToken

\* the arm of '^', read with the position counter at n
CaretToken(n) == IF n = 0 THEN StartToken ELSE NotToken

\* the arm of '?' pushing what the arm of '*' pushes
QuestionTokenAsAsterisk == Quantifier(ZeroOrMore("Asterisk"))

\* the arm of '?'
QuestionToken == Quantifier(ZeroOrMore("QuestionMark"))

\* the outer match without the arm of '}'
CloseCurlyAsElement == ElementToken("}")

\* the arm of '}' in the outer match
CloseCurlyToken == RightCurly

\* an arm of ',' in the outer match that pushes CommaToken
DefaultTokenComma(c) == IF c = "," THEN CommaToken ELSE ElementToken(c)

\* the arm of every character without an arm of its own
DefaultToken(c) == ElementToken(c)

\* the token of an unescaped character other than backslash and '{', read by
\* the outer loop with the position counter at n
Classify(c, n) ==
    CASE c = "^" -> CaretToken(n)
      [] c = "$" -> EndToken
      [] c = "." -> WildCardToken
      [] c = "*" -> Quantifier(ZeroOrMore("Asterisk"))
      [] c = "?" -> QuestionToken
      [] c = "+" -> Quantifier(OneOrMore)
      [] c = "|" -> OrToken
      [] c = "(" -> Parenthesis("LeftParenthesis")
      [] c = ")" -> Parenthesis("RightParenthesis")
      [] c = "-" -> DashToken
      [] c = "[" -> Bracket("LeftBracket")
      [] c = "]" -> Bracket("RightBracket")
      [] c = "}" -> CloseCurlyToken
      [] OTHER -> DefaultToken(c)

\* the token of a character the brace loop accepts and stays in
BraceToken(c) == IF c = "," THEN CommaToken ELSE ElementToken(c)

(* ----------------------- the function as a whole ----------------------- *)

RECURSIVE BraceLoop(_, _)
\* the brace loop from the iterator cs on, with the tokens toks pushed so
\* far: how it ends (Break, None, Return), the iterator and the tokens then
BraceLoop(cs, toks) ==
    IF cs = <<>> THEN <<"None", cs, toks>>
    ELSE LET c == Head(cs) IN
        IF c = "," \/ IsDigit(c) THEN BraceLoop(Tail(cs), Append(toks, BraceToken(c)))
        ELSE IF c = "}" THEN <<"Break", Tail(cs), Append(toks, RightCurly)>>
        ELSE <<"Return", Tail(cs), toks>>

RECURSIVE OuterLoop(_, _, _, _)
\* the outer loop from the iterator cs on, with the locals tokens = toks,
\* i = n and escape_found = esc: the value the function returns
OuterLoop(cs, toks, n, esc) ==
    IF cs = <<>> THEN Ok(toks)
    ELSE LET c == Head(cs) IN
        IF esc THEN OuterLoop(Tail(cs), Append(toks, EscapedToken(c)), n + 1, FALSE)
        ELSE IF c = BACKSLASH THEN OuterLoop(Tail(cs), toks, n + 1, TRUE)
        ELSE IF c = "{" THEN
            LET b == BraceLoop(Tail(cs), Append(toks, LeftCurly)) IN
            IF b[1] = "Return" THEN Err(LexerError(BraceErrorMessage))
            ELSE OuterLoop(b[2], b[3], n + 1 + 1, FALSE)
        ELSE OuterLoop(Tail(cs), Append(toks, Classify(c, n)), n + 1, FALSE)

\* lexer(s), run to its end on its own
lexer(str) == OuterLoop(str, <<>>, 0, FALSE)

(* ------------------------------- state --------------------------------- *)

Calls == DOMAIN pc

\* the position counter held in one place shared by all calls
CounterShared(c) == i[1]

\* the position counter as the call c reads it
Counter(c) == i[c]

\* the number of characters the call c has taken from its iterator
Consumed(c) == Len(s[c]) - Len(chars[c])

\* the state of a call on entry to the outer loop
Start(in) ==
    /\ s = in
    /\ chars = in
    /\ tokens = [c \in DOMAIN in |-> <<>>]
    /\ i = [c \in DOMAIN in |-> 0]
    /\ escape_found = [c \in DOMAIN in |-> FALSE]
    /\ pc = [c \in DOMAIN in |-> "outer"]
    /\ result = [c \in DOMAIN in |-> Pending]

\* one call, on any input within the bounds
Init ==
    \E in \in [{1} -> Strings(CoreAlphabet, MaxLen) \cup Strings(Alphabet, MaxWide)] :
        Start(in)

\* two calls on the same input
InitTwin == \E str \in Strings(CoreAlphabet, MaxTwin) : Start([c \in {1, 2} |-> str])

\* one call, for the specification with fairness
InitTerm == \E in \in [{1} -> Strings(CoreAlphabet, MaxTerm)] : Start(in)

\* two calls on independent inputs
InitPair ==
    \E in \in [{1, 2} -> Strings(PairAlphabet, MaxPair)] :
        /\ Len(in[1]) + Len(in[2]) <= MaxPair
        /\ Start(in)

(* ------------------------------ actions -------------------------------- *)

\* chars.next() of the outer loop yields c while an escape is pending
Escaped(c) ==
    /\ pc[c] = "outer"
    /\ chars[c] # <<>>
    /\ escape_found[c]
    /\ chars' = [chars EXCEPT ![c] = Tail(@)]
    /\ tokens' = [tokens EXCEPT ![c] = Append(@, EscapedToken(Head(chars[c])))]
    /\ i' = [i EXCEPT ![c] = Counter(c) + 1]
    /\ escape_found' = [escape_found EXCEPT ![c] = FALSE]
    /\ UNCHANGED <<s, pc, result>>

\* the escape lead pushed as a token of its own as well
EscapeLeadPushes(c) ==
    /\ pc[c] = "outer"
    /\ chars[c] # <<>>
    /\ ~escape_found[c]
    /\ Head(chars[c]) = BACKSLASH
    /\ chars' = [chars EXCEPT ![c] = Tail(@)]
    /\ tokens' = [tokens EXCEPT ![c] = Append(@, ElementToken(BACKSLASH))]
    /\ escape_found' = [escape_found EXCEPT ![c] = TRUE]
    /\ i' = [i EXCEPT ![c] = Counter(c) + 1]
    /\ UNCHANGED <<s, pc, result>>

\* the escape lead looked at (peek) and not taken from the iterator
EscapeLeadPeek(c) ==
    /\ pc[c] = "outer"
    /\ chars[c] # <<>>
    /\ ~escape_found[c]
    /\ Head(chars[c]) = BACKSLASH
    /\ escape_found' = [escape_found EXCEPT ![c] = TRUE]
    /\ i' = [i EXCEPT ![c] = Counter(c) + 1]
    /\ UNCHANGED <<s, chars, tokens, pc, result>>

\* chars.next() of the outer loop yields a backslash, no escape pending
EscapeLead(c) ==
    /\ pc[c] = "outer"
    /\ chars[c] # <<>>
    /\ ~escape_found[c]
    /\ Head(chars[c]) = BACKSLASH
    /\ chars' = [chars EXCEPT ![c] = Tail(@)]
    /\ escape_found' = [escape_found EXCEPT ![c] = TRUE]
    /\ i' = [i EXCEPT ![c] = Counter(c) + 1]
    /\ UNCHANGED <<s, tokens, pc, result>>

\* chars.next() of the outer loop yields an unescaped character that is
\* neither a backslash nor '{'
Dispatch(c) ==
    /\ pc[c] = "outer"
    /\ chars[c] # <<>>
    /\ ~escape_found[c]
    /\ Head(chars[c]) \notin {BACKSLASH, "{"}
    /\ chars' = [chars EXCEPT ![c] = Tail(@)]
    /\ tokens' = [tokens EXCEPT ![c] = Append(@, Classify(Head(chars[c]), Counter(c)))]
    /\ i' = [i EXCEPT ![c] = Counter(c) + 1]
    /\ escape_found' = [escape_found EXCEPT ![c] = FALSE]
    /\ UNCHANGED <<s, pc, result>>

\* chars.next() of the outer loop yields an unescaped '{': the brace loop is
\* entered
OpenCurly(c) ==
    /\ pc[c] = "outer"
    /\ chars[c] # <<>>
    /\ ~escape_found[c]
    /\ Head(chars[c]) = "{"
    /\ chars' = [chars EXCEPT ![c] = Tail(@)]
    /\ tokens' = [tokens EXCEPT ![c] = Append(@, LeftCurly)]
    /\ i' = [i EXCEPT ![c] = Counter(c) + 1]
    /\ pc' = [pc EXCEPT ![c] = "brace"]
    /\ UNCHANGED <<s, escape_found, result>>

\* chars.next() of the brace loop yields ',' or a digit
BraceBody(c) ==
    /\ pc[c] = "brace"
    /\ chars[c] # <<>>
    /\ Head(chars[c]) = "," \/ IsDigit(Head(chars[c]))
    /\ chars' = [chars EXCEPT ![c] = Tail(@)]
    /\ tokens' = [tokens EXCEPT ![c] = Append(@, BraceToken(Head(chars[c])))]
    /\ UNCHANGED <<s, i, escape_found, pc, result>>

\* the arm of '}' in the brace loop without its break
BraceCloseNoBreak(c) ==
    /\ pc[c] = "brace"
    /\ chars[c] # <<>>
    /\ Head(chars[c]) = "}"
    /\ chars' = [chars EXCEPT ![c] = Tail(@)]
    /\ tokens' = [tokens EXCEPT ![c] = Append(@, RightCurly)]
    /\ UNCHANGED <<s, i, escape_found, pc, result>>

\* chars.next() of the brace loop yields '}': break, then the tail of the
\* outer loop's body
BraceClose(c) ==
    /\ pc[c] = "brace"
    /\ chars[c] # <<>>
    /\ Head(chars[c]) = "}"
    /\ chars' = [chars EXCEPT ![c] = Tail(@)]
    /\ tokens' = [tokens EXCEPT ![c] = Append(@, RightCurly)]
    /\ i' = [i EXCEPT ![c] = Counter(c) + 1]
    /\ escape_found' = [escape_found EXCEPT ![c] = FALSE]
    /\ pc' = [pc EXCEPT ![c] = "outer"]
    /\ UNCHANGED <<s, result>>

\* the brace loop going on after a character it rejects
AfterBraceFailContinue == "brace"

\* where the call goes after the brace loop met a character it rejects
AfterBraceFail == "done"

\* a backslash in the brace loop taken as an escape lead
BraceFailUnlessBackslash(c) ==
    /\ pc[c] = "brace"
    /\ chars[c] # <<>>
    /\ Head(chars[c]) # ","
    /\ ~IsDigit(Head(chars[c]))
    /\ Head(chars[c]) # "}"
    /\ chars' = [chars EXCEPT ![c] = Tail(@)]
    /\ IF Head(chars[c]) = BACKSLASH
         THEN /\ escape_found' = [escape_found EXCEPT ![c] = TRUE]
              /\ pc' = [pc EXCEPT ![c] = "outer"]
              /\ UNCHANGED result
         ELSE /\ result' = [result EXCEPT ![c] = Err(LexerError(BraceErrorMessage))]
              /\ pc' = [pc EXCEPT ![c] = AfterBraceFail]
              /\ UNCHANGED escape_found
    /\ UNCHANGED <<s, tokens, i>>

\* chars.next() of the brace loop yields anything else: return Err
BraceFail(c) ==
    /\ pc[c] = "brace"
    /\ chars[c] # <<>>
    /\ Head(chars[c]) # ","
    /\ ~IsDigit(Head(chars[c]))
    /\ Head(chars[c]) # "}"
    /\ chars' = [chars EXCEPT ![c] = Tail(@)]
    /\ result' = [result EXCEPT ![c] = Err(LexerError(BraceErrorMessage))]
    /\ pc' = [pc EXCEPT ![c] = AfterBraceFail]
    /\ UNCHANGED <<s, tokens, i, escape_found>>

\* an unterminated brace group treated as an error
BraceExhaustedErr(c) ==
    /\ pc[c] = "brace"
    /\ chars[c] = <<>>
    /\ result' = [result EXCEPT ![c] = Err(LexerError(BraceErrorMessage))]
    /\ pc' = [pc EXCEPT ![c] = "done"]
    /\ UNCHANGED <<s, chars, tokens, i, escape_found>>

\* chars.next() of the brace loop yields None: the loop ends, then the tail
\* of the outer loop's body
BraceExhausted(c) ==
    /\ pc[c] = "brace"
    /\ chars[c] = <<>>
    /\ i' = [i EXCEPT ![c] = Counter(c) + 1]
    /\ escape_found' = [escape_found EXCEPT ![c] = FALSE]
    /\ pc' = [pc EXCEPT ![c] = "outer"]
    /\ UNCHANGED <<s, chars, tokens, result>>

\* an escape lead at the end of the input treated as an error
ExhaustedDanglingErr(c) ==
    /\ pc[c] = "outer"
    /\ chars[c] = <<>>
    /\ result' = [result EXCEPT ![c] =
                    IF escape_found[c] THEN Err(LexerError(BraceErrorMessage))
                    ELSE Ok(tokens[c])]
    /\ pc' = [pc EXCEPT ![c] = "done"]
    /\ UNCHANGED <<s, chars, tokens, i, escape_found>>

\* chars.next() of the outer loop yields None: return Ok(tokens)
Exhausted(c) ==
    /\ pc[c] = "outer"
    /\ chars[c] = <<>>
    /\ result' = [result EXCEPT ![c] = Ok(tokens[c])]
    /\ pc' = [pc EXCEPT ![c] = "done"]
    /\ UNCHANGED <<s, chars, tokens, i, escape_found>>

\* one step of the call c
Step(c) ==
    \/ Escaped(c)
    \/ EscapeLead(c)
    \/ Dispatch(c)
    \/ OpenCurly(c)
    \/ BraceBody(c)
    \/ BraceClose(c)
    \/ BraceFail(c)
    \/ BraceExhausted(c)
    \/ Exhausted(c)

Next ==
    \/ \E c \in Calls : Escaped(c)
    \/ \E c \in Calls : EscapeLead(c)
    \/ \E c \in Calls : Dispatch(c)
    \/ \E c \in Calls : OpenCurly(c)
    \/ \E c \in Calls : BraceBody(c)
    \/ \E c \in Calls : BraceClose(c)
    \/ \E c \in Calls : BraceFail(c)
    \/ \E c \in Calls : BraceExhausted(c)
    \/ \E c \in Calls : Exhausted(c)

Spec == Init /\ [][Next]_vars

SpecTwin == InitTwin /\ [][Next]_vars

SpecPair == InitPair /\ [][Next]_vars

\* the function body runs on without pause: a step that can be taken is taken
SpecTerm == InitTerm /\ [][Next]_vars /\ WF_vars(Next)

(* ------------------- the two translations agree ------------------------ *)

\* a call that has returned has returned what the function as a whole does
StepsAgreeWithLexer == \A c \in Calls : pc[c] = "done" => result[c] = lexer(s[c])

(* ------------------------ vocabulary of the claims --------------------- *)

RECURSIVE Context(_, _)
\* where the k-th character of str stands, told from the characters before
\* it: "top" (unescaped, outside any brace body), "escaped" (right after an
\* escape-lead backslash), "body" (after an unescaped top-level '{' not yet
\* closed), "dead" (after a character a brace body rejects)
Context(str, k) ==
    IF k = 1 THEN "top"
    ELSE LET before == Context(str, k - 1)
             ch == str[k - 1]
         IN CASE before = "top" /\ ch = BACKSLASH -> "escaped"
              [] before = "top" /\ ch = "{" -> "body"
              [] before = "top" -> "top"
              [] before = "escaped" -> "top"
              [] before = "body" /\ ch = "}" -> "top"
              [] before = "body" /\ (ch = "," \/ ch \in Digits) -> "body"
              [] OTHER -> "dead"

\* the call c takes a character from its iterator in this step
Consumes(c) == chars[c] # <<>> /\ chars'[c] = Tail(chars[c])

\* the character the call c takes next, and where it stands in the input
NextChar(c) == Head(chars[c])

NextContext(c) == Context(s[c], Consumed(c) + 1)

IsOk(r) == r[1] = "Ok"

IsErr(r) == r[1] = "Err"

(* -------------------------------- C1 ----------------------------------- *)

\* C1: an unescaped top-level '^' is pushed as StartToken if and only if it
\* is the very first character of the input, which is when the position
\* counter is 0; everywhere else it is pushed as NotToken.
C1_CaretStartIffFirst ==
    [][\A c \in Calls :
        (Consumes(c) /\ NextChar(c) = "^" /\ NextContext(c) = "top") =>
            /\ (i[c] = 0) <=> (Consumed(c) = 0)
            /\ tokens'[c] =
                 Append(tokens[c], IF Consumed(c) = 0 THEN StartToken ELSE NotToken)]_vars

\* '^' as the first character, and again after a complete brace group
C1_Witness ==
    \E c \in Calls :
        /\ s[c] = <<"^", "{", "}", "^">>
        /\ result[c] = Ok(<<StartToken, LeftCurly, RightCurly, NotToken>>)

(* -------------------------------- C2 ----------------------------------- *)

\* an unescaped top-level '{' followed, before the first later '}' or the
\* end of the input, by a character that is neither a digit nor ','
BadBrace(str) ==
    \E k \in 1..Len(str) :
        /\ str[k] = "{"
        /\ Context(str, k) = "top"
        /\ \E j \in (k + 1)..Len(str) :
            /\ str[j] \notin Digits \cup {",", "}"}
            /\ \A m \in (k + 1)..(j - 1) : str[m] # "}"

\* C2: lexer returns Err if and only if the input holds an unescaped
\* top-level '{' followed, before the first later '}' or the end of input,
\* by a character that is neither an ASCII digit nor ','; every other input
\* returns Ok.
C2_ErrIffBadBrace ==
    \A c \in Calls :
        pc[c] = "done" =>
            /\ IsErr(result[c]) <=> BadBrace(s[c])
            /\ IsOk(result[c]) <=> ~BadBrace(s[c])

\* an escaped '{' that starts no group, then a group with a letter in it
C2_Witness ==
    \E c \in Calls :
        /\ s[c] = <<BACKSLASH, "{", "{", "a">>
        /\ pc[c] = "done"
        /\ IsErr(result[c])

(* -------------------------------- C3 ----------------------------------- *)

\* C3: with the escape-pending flag set, the next character consumed pushes
\* exactly one ElementToken, of the tab for 't' and of the character itself
\* otherwise, whatever the character means unescaped; '{' starts no brace
\* sub-scan; the flag is cleared afterwards.
C3_EscapedIsElement ==
    [][\A c \in Calls :
        (escape_found[c] /\ Consumes(c)) =>
            /\ tokens'[c] =
                 Append(tokens[c],
                        ElementToken(IF NextChar(c) = "t" THEN TAB ELSE NextChar(c)))
            /\ ~escape_found'[c]
            /\ pc'[c] = "outer"
            /\ result'[c] = Pending]_vars

\* an escaped '{' and an escaped 't'
C3_Witness ==
    \E c \in Calls :
        /\ s[c] = <<BACKSLASH, "{", BACKSLASH, "t">>
        /\ result[c] = Ok(<<ElementToken("{"), ElementToken(TAB)>>)

(* -------------------------------- C4 ----------------------------------- *)

\* every CommaToken of toks has a LeftCurlyBrace before it with no
\* RightCurlyBrace between the two
CommasInBraces(toks) ==
    \A k \in 1..Len(toks) :
        toks[k] = CommaToken =>
            \E j \in 1..(k - 1) :
                /\ toks[j] = LeftCurly
                /\ \A m \in (j + 1)..(k - 1) : toks[m] # RightCurly

\* C4: in every returned token sequence each CommaToken is preceded by a
\* LeftCurlyBrace with no RightCurlyBrace between them; an unescaped ',' or
\* digit read at top level is pushed as the ElementToken of that character.
C4_CommaOnlyInBraces ==
    /\ [](\A c \in Calls : IsOk(result[c]) => CommasInBraces(result[c][2]))
    /\ [][\A c \in Calls :
            (Consumes(c) /\ NextContext(c) = "top"
                /\ (NextChar(c) = "," \/ NextChar(c) \in Digits)) =>
                tokens'[c] = Append(tokens[c], ElementToken(NextChar(c)))]_vars

\* a comma in a brace group, and a comma after the group closed
C4_Witness ==
    \E c \in Calls :
        /\ s[c] = <<"{", ",", "}", ",">>
        /\ result[c] = Ok(<<LeftCurly, CommaToken, RightCurly, ElementToken(",")>>)

(* -------------------------------- C5 ----------------------------------- *)

\* C5: when lexer fails in a brace body the scan stops at the offending
\* character (nothing later is consumed, no later token is pushed) and the
\* result is an error value only, with none of the tokens pushed before.
C5_FailStopsScan ==
    \A c \in Calls :
        IsErr(result[c]) =>
            /\ Consumed(c) >= 2
            /\ s[c][Consumed(c)] \notin Digits \cup {",", "}"}
            /\ Context(s[c], Consumed(c)) = "body"
            /\ Len(tokens[c]) < Consumed(c)
            /\ ~ENABLED Step(c)
            /\ Len(result[c]) = 2
            /\ result[c][2][1] = "LexerError"

\* a failure with tokens pushed before it and input left after it
C5_Witness ==
    \E c \in Calls :
        /\ IsErr(result[c])
        /\ tokens[c] = <<ElementToken("a"), LeftCurly>>
        /\ chars[c] = <<"}">>

(* -------------------------------- C6 ----------------------------------- *)

\* C6: the error value lexer returns for an invalid character in a brace
\* body carries a descriptive, non-empty message.
C6_ErrorCarriesMessage ==
    \A c \in Calls : IsErr(result[c]) => Message(result[c][2]) # ""

(* -------------------------------- C7 ----------------------------------- *)

\* the token the brace sub-scan pushes for a digit or a comma
BodyToken(ch) == IF ch = "," THEN CommaToken ELSE ElementToken(ch)

\* the k-th character of str is an unescaped top-level '{' and only digits
\* and commas follow it up to the end of str
UnterminatedAt(str, k) ==
    /\ str[k] = "{"
    /\ Context(str, k) = "top"
    /\ \A j \in (k + 1)..Len(str) : str[j] \in Digits \cup {","}

\* C7: if the input ends while the brace sub-scan is active, lexer returns
\* Ok and the returned sequence ends with the LeftCurlyBrace token and the
\* tokens of the body, with no RightCurlyBrace token after that LeftCurlyBrace.
C7_UnterminatedBraceIsOk ==
    \A c \in Calls :
        \A k \in 1..Len(s[c]) :
            (pc[c] = "done" /\ UnterminatedAt(s[c], k)) =>
                /\ IsOk(result[c])
                /\ LET toks == result[c][2]
                       n == Len(s[c]) - k
                   IN /\ Len(toks) >= n + 1
                      /\ toks[Len(toks) - n] = LeftCurly
                      /\ \A m \in 1..n : toks[Len(toks) - n + m] = BodyToken(s[c][k + m])
                      /\ \A m \in (Len(toks) - n)..Len(toks) : toks[m] # RightCurly

\* the input ends in the body of a brace group
C7_Witness ==
    \E c \in Calls :
        /\ s[c] = <<"a", "{", "3", ",">>
        /\ result[c] = Ok(<<ElementToken("a"), LeftCurly, ElementToken("3"), CommaToken>>)

(* -------------------------------- C8 ----------------------------------- *)

\* C8: every unescaped '}' read at top level is pushed as a RightCurlyBrace
\* token and causes no error.
C8_StrayCloseCurly ==
    [][\A c \in Calls :
        (Consumes(c) /\ NextChar(c) = "}" /\ NextContext(c) = "top") =>
            /\ tokens'[c] = Append(tokens[c], RightCurly)
            /\ result'[c] = Pending
            /\ pc'[c] = "outer"]_vars

\* the number of tokens of toks equal to tok
Count(toks, tok) == Cardinality({k \in 1..Len(toks) : toks[k] = tok})

\* a returned sequence with more RightCurlyBrace than LeftCurlyBrace tokens
C8_Witness ==
    \E c \in Calls :
        /\ s[c] = <<"}", "{", "}", "}">>
        /\ IsOk(result[c])
        /\ Count(result[c][2], RightCurly) > Count(result[c][2], LeftCurly)

(* -------------------------------- C9 ----------------------------------- *)

\* the locals of the call c and what it has returned
Locals(c) == <<chars[c], tokens[c], i[c], escape_found[c], pc[c], result[c]>>

\* C9: two runs of the scanner on the same input that stand at the same
\* point of the scan are in the same state, and they return the same result.
C9_Deterministic ==
    \A c \in Calls : \A d \in Calls :
        s[c] = s[d] =>
            /\ (chars[c] = chars[d] /\ pc[c] = pc[d]) => Locals(c) = Locals(d)
            /\ (pc[c] = "done" /\ pc[d] = "done") => result[c] = result[d]

\* both runs have returned the tokens of an input with an escaped caret
\* and a caret that is not first
C9_Witness ==
    /\ Calls = {1, 2}
    /\ s[1] = <<BACKSLASH, "^", "^">>
    /\ s[2] = s[1]
    /\ result[1] = Ok(<<ElementToken("^"), NotToken>>)
    /\ result[2] = result[1]

(* -------------------------------- C10 ---------------------------------- *)

\* C10: of two calls running concurrently on independent inputs, under every
\* interleaving of their steps, each returns what it returns when run alone,
\* and a step of one call leaves the locals and the result of the other as
\* they are.
C10_NoInterference ==
    /\ [](\A c \in Calls : pc[c] = "done" => result[c] = lexer(s[c]))
    /\ [][\A c \in Calls : \A d \in Calls \ {c} :
            Locals(c)' # Locals(c) => Locals(d)' = Locals(d)]_vars

\* two calls on different inputs, one failed and one returned its tokens
C10_Witness ==
    /\ Calls = {1, 2}
    /\ s[1] = <<"{", "^">>
    /\ s[2] = <<"^">>
    /\ IsErr(result[1])
    /\ result[2] = Ok(<<StartToken>>)

(* -------------------------------- C11 ---------------------------------- *)

\* C11: at every point of a scan the position counter i equals the number
\* of input characters consumed so far, the characters consumed inside the
\* brace sub-scan included.
C11_CounterIsConsumed == \A c \in Calls : pc[c] # "done" => i[c] = Consumed(c)

(* -------------------------------- C12 ---------------------------------- *)

\* the classification of the character ch standing at the k-th place
\* (1-based) of an input without backslash and without '{'
Classification(ch, k) ==
    CASE ch = "^" -> IF k = 1 THEN <<"StartToken">> ELSE <<"NotToken">>
      [] ch = "$" -> <<"EndToken">>
      [] ch = "." -> <<"WildCardToken">>
      [] ch = "*" -> <<"Quantifier", <<"ZeroOrMore", "Asterisk">>>>
      [] ch = "?" -> <<"Quantifier", <<"ZeroOrMore", "QuestionMark">>>>
      [] ch = "+" -> <<"Quantifier", <<"OneOrMore">>>>
      [] ch = "|" -> <<"OrToken">>
      [] ch = "(" -> <<"Parenthesis", "LeftParenthesis">>
      [] ch = ")" -> <<"Parenthesis", "RightParenthesis">>
      [] ch = "-" -> <<"DashToken">>
      [] ch = "[" -> <<"Bracket", "LeftBracket">>
      [] ch = "]" -> <<"Bracket", "RightBracket">>
      [] ch = "}" -> <<"CurlyBrace", "RightCurlyBrace">>
      [] OTHER -> <<"ElementToken", ch>>

\* str holds no backslash and no '{'
Plain(str) == \A k \in 1..Len(str) : str[k] \notin {BACKSLASH, "{"}

\* C12: for an input with no backslash and no '{', lexer returns Ok with one
\* token per input character, in input order, the k-th token being the
\* classification of the k-th character.
C12_PlainInputOneTokenEach ==
    \A c \in Calls :
        (pc[c] = "done" /\ Plain(s[c])) =>
            result[c] = Ok([k \in 1..Len(s[c]) |-> Classification(s[c][k], k)])

\* a quantifier first and a caret that is not first
C12_Witness ==
    \E c \in Calls :
        /\ s[c] = <<"?", "^">>
        /\ result[c] = Ok(<<Quantifier(ZeroOrMore("QuestionMark")), NotToken>>)

(* -------------------------------- C13 ---------------------------------- *)

\* the step of the call c is an iteration of one of the two loops: its
\* chars.next() yields a character
Iterates(c) == Locals(c)' # Locals(c) /\ chars[c] # <<>>

\* the step of the call c is the end of one of the two loops: its
\* chars.next() yields None
LoopEnds(c) == Locals(c)' # Locals(c) /\ chars[c] = <<>>

\* C13: the scan terminates on every input; every iteration of the outer
\* loop and of the brace loop consumes exactly one input character, a loop
\* whose iterator is exhausted ends instead of iterating, and so the
\* iterations never outnumber the input's characters.
C13_ScanTerminates ==
    /\ <>(\A c \in Calls : pc[c] = "done")
    /\ [][\A c \in Calls :
            /\ Iterates(c) => chars'[c] = Tail(chars[c])
            /\ LoopEnds(c) =>
                 \/ pc[c] = "brace" /\ pc'[c] = "outer"
                 \/ pc[c] = "outer" /\ pc'[c] = "done"]_vars

\* a scan that went through both loops and returned
C13_Witness ==
    \E c \in Calls :
        /\ s[c] = <<"a", "{", "3">>
        /\ pc[c] = "done"
        /\ chars[c] = <<>>
        /\ Len(tokens[c]) = 3

(* -------------------------------- C14 ---------------------------------- *)

\* The flat scanner: one character per step, a mode (Normal, InBraceBody),
\* an escape-pending flag, the number of characters read, the tokens and
\* whether the scan has failed.
FlatStart ==
    [mode |-> "Normal", escape |-> FALSE, pos |-> 0, toks |-> <<>>, failed |-> FALSE]

\* the flat scanner in the state st reads the character ch
FlatStep(st, ch) ==
    IF st.failed THEN st
    ELSE IF st.mode = "InBraceBody" THEN
        CASE ch = "," ->
               [st EXCEPT !.toks = Append(@, <<"CommaToken">>), !.pos = @ + 1]
          [] ch \in Digits ->
               [st EXCEPT !.toks = Append(@, <<"ElementToken", ch>>), !.pos = @ + 1]
          [] ch = "}" ->
               [st EXCEPT !.toks = Append(@, <<"CurlyBrace", "RightCurlyBrace">>),
                          !.pos = @ + 1, !.mode = "Normal"]
          [] OTHER -> [st EXCEPT !.failed = TRUE]
    ELSE IF st.escape THEN
        [st EXCEPT !.toks = Append(@, <<"ElementToken", IF ch = "t" THEN "\t" ELSE ch>>),
                   !.pos = @ + 1, !.escape = FALSE]
    ELSE IF ch = BACKSLASH THEN [st EXCEPT !.escape = TRUE, !.pos = @ + 1]
    ELSE IF ch = "{" THEN
        [st EXCEPT !.toks = Append(@, <<"CurlyBrace", "LeftCurlyBrace">>),
                   !.pos = @ + 1, !.mode = "InBraceBody"]
    ELSE [st EXCEPT !.toks = Append(@, Classification(ch, st.pos + 1)), !.pos = @ + 1]

RECURSIVE FlatRun(_, _)
\* the flat scanner after the first k characters of str
FlatRun(str, k) == IF k = 0 THEN FlatStart ELSE FlatStep(FlatRun(str, k - 1), str[k])

\* what the flat scanner returns at the end of the input
FlatResult(str) ==
    LET st == FlatRun(str, Len(str))
    IN IF st.failed THEN "Err" ELSE Ok(st.toks)

\* C14: the nested loops of lexer and the flat scanner with an explicit mode
\* and escape flag give the same result on every input (the same tokens, or
\* both an error), and hold the same tokens after every consumed character.
C14_NestedLoopsAreFlatScanner ==
    \A c \in Calls :
        LET st == FlatRun(s[c], Consumed(c))
        IN /\ tokens[c] = st.toks
           /\ IsErr(result[c]) <=> st.failed
           /\ pc[c] = "brace" => st.mode = "InBraceBody"
           /\ (pc[c] = "outer" /\ chars[c] # <<>>) =>
                 (st.mode = "Normal" /\ st.escape = escape_found[c])
           /\ pc[c] = "done" =>
                 /\ IsOk(result[c]) => result[c] = FlatResult(s[c])
                 /\ IsErr(result[c]) => FlatResult(s[c]) = "Err"

\* a scan that left the brace loop through '}' and went on at top level
C14_Witness ==
    \E c \in Calls :
        /\ s[c] = <<"{", "3", "}", "^">>
        /\ pc[c] = "done"
        /\ result[c] = FlatResult(s[c])
        /\ result[c] = Ok(<<LeftCurly, ElementToken("3"), RightCurly, NotToken>>)

(* -------------------------------- C15 ---------------------------------- *)

\* the number of escape-lead backslashes of str: the backslashes read at top
\* level with no escape pending
EscapeLeads(str) ==
    Cardinality({k \in 1..Len(str) : str[k] = BACKSLASH /\ Context(str, k) = "top"})

\* C15: on an input lexer returns Ok for, the number of returned tokens is
\* the input length minus the number of escape-lead backslashes; tokens are
\* only appended at the end of the sequence, never removed or reordered; the
\* empty input yields the empty sequence.
C15_TokenCount ==
    /\ [](\A c \in Calls :
            /\ IsOk(result[c]) => Len(result[c][2]) = Len(s[c]) - EscapeLeads(s[c])
            /\ (pc[c] = "done" /\ s[c] = <<>>) => result[c] = Ok(<<>>))
    /\ [][\A c \in Calls :
            /\ Len(tokens'[c]) \in {Len(tokens[c]), Len(tokens[c]) + 1}
            /\ SubSeq(tokens'[c], 1, Len(tokens[c])) = tokens[c]]_vars

\* an escape lead, its escaped backslash, and a brace group left open
C15_Witness ==
    \E c \in Calls :
        /\ s[c] = <<BACKSLASH, BACKSLASH, "{", "3">>
        /\ result[c] = Ok(<<ElementToken(BACKSLASH), LeftCurly, ElementToken("3")>>)

(* -------------------------------- C16 ---------------------------------- *)

\* C16: at every point of the scan StartToken occurs at most once in the
\* token sequence, and only as its first token.
C16_StartTokenOnlyFirst ==
    \A c \in Calls :
        \A k \in 1..Len(tokens[c]) : tokens[c][k] = StartToken => k = 1

\* carets after the first one, at top level, are not start anchors
C16_Witness ==
    \E c \in Calls :
        /\ s[c] = <<"^", "^", "a", "^">>
        /\ tokens[c] = <<StartToken, NotToken, ElementToken("a"), NotToken>>

(* -------------------------------- C17 ---------------------------------- *)

\* str ends with an escape-lead backslash
DanglingEscape(str) ==
    /\ str # <<>>
    /\ str[Len(str)] = BACKSLASH
    /\ Context(str, Len(str)) = "top"

\* C17: an input that ends with an escape-lead backslash makes lexer return
\* Ok with the tokens of the preceding characters only: the escape flag is
\* still set at the end, and the backslash gives no token and no error.
C17_DanglingEscapeIsOk ==
    \A c \in Calls :
        (pc[c] = "done" /\ DanglingEscape(s[c])) =>
            /\ escape_found[c]
            /\ IsOk(result[c])
            /\ result[c] = lexer(SubSeq(s[c], 1, Len(s[c]) - 1))

\* a closed brace group, a letter, and a backslash at the end
C17_Witness ==
    \E c \in Calls :
        /\ s[c] = <<"{", "}", "a", BACKSLASH>>
        /\ escape_found[c]
        /\ result[c] = Ok(<<LeftCurly, RightCurly, ElementToken("a")>>)

(* -------------------------------- C18 ---------------------------------- *)

\* str holds a backslash in a brace body
BackslashInBody(str) ==
    \E k \in 1..Len(str) : str[k] = BACKSLASH /\ Context(str, k) = "body"

\* C18: the escape-pending flag is false whenever the brace sub-scan is
\* active, and a backslash read inside a brace body makes lexer return Err
\* whatever character follows it.
C18_NoEscapeInBraceBody ==
    \A c \in Calls :
        /\ pc[c] = "brace" => ~escape_found[c]
        /\ (pc[c] = "done" /\ BackslashInBody(s[c])) => IsErr(result[c])

\* a backslash in a brace body, with a digit and '}' after it left unread
C18_Witness ==
    \E c \in Calls :
        /\ s[c] = <<"{", BACKSLASH, "3", "}">>
        /\ IsErr(result[c])
        /\ chars[c] = <<"3", "}">>

====
